---- MODULE Spec2Model ----
(***************************************************************************)
(* Model of hooks/notify.py: one invocation of main(), from the reading of *)
(* sys.argv to the return of the exit status (or the escape of an          *)
(* exception).  Text is modelled as a sequence of tokens, a path as the    *)
(* sequence of its components below the root.                              *)
(***************************************************************************)
EXTENDS Integers, Sequences, FiniteSets, TLC

\* ------------------------------------------------------------------ bounds
MaxArgs == 2        \* arguments after the program name
MaxDirDepth == 2    \* depth of the script's directory and of the working directory

\* ---------------------------------------------------------- input domains
ArgWords == {"input", "complete", "invalid"}
ProgName == "notify.py"
EnvValues == {"unset", "empty", "set"}
ClockValues == {<<9, 5, 0>>, <<23, 59, 59>>}
DecodeResults == {<<<<1, 2>>, 44100>>, <<<<1, 2, 3>>, 48000>>}

RECURSIVE Repeat(_, _)
Repeat(x, n) == IF n = 0 THEN <<>> ELSE <<x>> \o Repeat(x, n - 1)

RECURSIVE SeqsUpTo(_, _)
SeqsUpTo(S, n) ==
    IF n = 0 THEN {<<>>}
    ELSE LET shorter == SeqsUpTo(S, n - 1)
         IN  shorter \cup {Append(s, x) : s \in shorter, x \in S}

ArgVectors == {<<ProgName>> \o a : a \in SeqsUpTo(ArgWords, MaxArgs)}
ScriptDirs == {Repeat("hooks", n) : n \in 0..MaxDirDepth}
WorkDirs == {Repeat("proj", n) : n \in 0..MaxDirDepth}

\* ------------------------------------------------------------ pure helpers
\* os.getenv: None for an unset variable, the string otherwise
Getenv(e, name) ==
    IF e[name] = "unset" THEN "None" ELSE IF e[name] = "empty" THEN "" ELSE
    IF name = "TELEGRAM_BOT_TOKEN" THEN "123:abc" ELSE "4242"

\* truth value of an Optional[str]: None and "" are false
Truthy(v) == v # "None" /\ v # ""

\* Path.name: the last component, "" for the root
Name(p) == IF Len(p) = 0 THEN "" ELSE p[Len(p)]

\* Path.parent
Parent(p) == IF Len(p) = 0 THEN p ELSE SubSeq(p, 1, Len(p) - 1)

\* str(Path): the components, each preceded by the separator
RECURSIVE PathStr(_)
PathStr(p) == IF Len(p) = 0 THEN <<>> ELSE PathStr(Parent(p)) \o <<"/", Name(p)>>

\* "%H:%M:%S": three zero-padded two-digit fields
Digits == <<"0", "1", "2", "3", "4", "5", "6", "7", "8", "9">>
TwoDigits(n) == <<Digits[(n \div 10) + 1], Digits[(n % 10) + 1]>>
FormatHMS(t) == TwoDigits(t[1]) \o <<":">> \o TwoDigits(t[2]) \o <<":">> \o TwoDigits(t[3])

\* ------------------------------------------------------------------- state
VARIABLES
    argv,         \* sys.argv
    environ,      \* os.environ, the two variables read
    file,         \* __file__, absolute
    cwd,          \* the working directory of the process
    fs,           \* the paths that exist on the filesystem
    pc,           \* position in main / play_sound_file / send_telegram
    event,        \* main: event
    sound_file,   \* play_sound_file: sound_file
    decoded,      \* play_sound_file: (data, samplerate), <<>> before the decode
    exc,          \* play_sound_file: the exception caught, <<>> when none
    playResult,   \* value returned by play_sound_file, <<>> before it returns
    message,      \* send_telegram: message
    stderr,       \* lines printed to sys.stderr
    calls,        \* invocations made so far, in order
    exitStatus,   \* value returned by main, <<>> before it returns
    uncaught      \* exception that escaped main, <<>> when none

vars == <<argv, environ, file, cwd, fs, pc, event, sound_file, decoded, exc,
          playResult, message, stderr, calls, exitStatus, uncaught>>

inputs == <<argv, environ, file, cwd, fs>>

\* one invocation: the callee, its arguments, "called" / "ok" / "raise" (or the
\* outcome of the request), and the value returned (<<>> when none is used)
Call(fn, args, result, value) ==
    [fn |-> fn, args |-> args, result |-> result, value |-> value]

SoundNames == {"input-needed.ogg", "complete.ogg"}
SoundPaths(f) == {Parent(f) \o <<"sounds", n>> : n \in SoundNames}

Init ==
    /\ argv \in ArgVectors
    /\ environ \in [{"TELEGRAM_BOT_TOKEN", "TELEGRAM_CHAT_ID"} -> EnvValues]
    /\ file \in {d \o <<ProgName>> : d \in ScriptDirs}
    /\ cwd \in [exists : {TRUE}, path : WorkDirs] \cup [exists : {FALSE}, path : {<<>>}]
    /\ fs \in SUBSET SoundPaths(file)
    /\ pc = "main"
    /\ event = ""
    /\ sound_file = <<>>
    /\ decoded = <<>>
    /\ exc = <<>>
    /\ playResult = <<>>
    /\ message = <<>>
    /\ stderr = <<>>
    /\ calls = <<>>
    /\ exitStatus = <<>>
    /\ uncaught = <<>>

\* -------------------------------------------------------------------- main
\* variant: the argument count is not checked
WellFormedAnyCount(a) == Len(a) >= 2 /\ a[2] \in {"input", "complete"}

WellFormed(a) == Len(a) = 2 /\ a[2] \in {"input", "complete"}

UsageText(a) ==
    << <<"Usage: ", a[1], " ", "{input|complete}">>,
       <<"  input    - Play sound when Claude needs user input">>,
       <<"  complete - Play sound when Claude completes tasks">> >>

\* main, lines 67-71: malformed invocation
MainUsage ==
    /\ pc = "main"
    /\ ~WellFormed(argv)
    /\ stderr' = stderr \o UsageText(argv)
    /\ exitStatus' = <<1>>
    /\ pc' = "done"
    /\ UNCHANGED <<inputs, event, sound_file, decoded, exc, playResult, message,
                   calls, uncaught>>

\* variant: the sounds directory is looked up in the working directory
sound_filesFromCwd(f) ==
    [e \in {"input", "complete"} |->
        cwd.path \o <<"sounds", IF e = "input" THEN "input-needed.ogg" ELSE "complete.ogg">>]

sound_files(f) ==
    [e \in {"input", "complete"} |->
        Parent(f) \o <<"sounds", IF e = "input" THEN "input-needed.ogg" ELSE "complete.ogg">>]

\* main, lines 73-82: resolve the sound and call play_sound_file
MainDispatch ==
    /\ pc = "main"
    /\ WellFormed(argv)
    /\ event' = argv[2]
    /\ sound_file' = sound_files(file)[argv[2]]
    /\ calls' = Append(calls, Call("play_sound_file", <<sound_files(file)[argv[2]]>>,
                                  "called", <<>>))
    /\ pc' = "exists"
    /\ UNCHANGED <<inputs, decoded, exc, playResult, message, stderr, exitStatus, uncaught>>

\* ---------------------------------------------------------- play_sound_file
playVars == <<sound_file, decoded, exc, playResult>>

\* variant: the warning names the file without its directory
PlayMissingNameOnly ==
    /\ pc = "exists"
    /\ sound_file \notin fs
    /\ stderr' = Append(stderr, <<"Warning: Sound file not found: ", Name(sound_file)>>)
    /\ playResult' = <<FALSE>>
    /\ pc' = "play_ret"
    /\ UNCHANGED <<inputs, event, sound_file, decoded, exc, message, calls,
                   exitStatus, uncaught>>

\* lines 28-30: the file is missing
PlayMissing ==
    /\ pc = "exists"
    /\ sound_file \notin fs
    /\ stderr' = Append(stderr, <<"Warning: Sound file not found: ">> \o PathStr(sound_file))
    /\ playResult' = <<FALSE>>
    /\ pc' = "play_ret"
    /\ UNCHANGED <<inputs, event, sound_file, decoded, exc, message, calls,
                   exitStatus, uncaught>>

\* line 28: the file exists, enter the try block
PlayExists ==
    /\ pc = "exists"
    /\ sound_file \in fs
    /\ pc' = "read"
    /\ UNCHANGED <<inputs, event, playVars, message, stderr, calls, exitStatus, uncaught>>

\* line 33: sf.read returns (data, samplerate)
SfReadOk ==
    /\ pc = "read"
    /\ \E r \in DecodeResults :
          /\ decoded' = r
          /\ calls' = Append(calls, Call("sf.read", <<sound_file>>, "ok", r))
    /\ pc' = "play"
    /\ UNCHANGED <<inputs, event, sound_file, exc, playResult, message, stderr,
                   exitStatus, uncaught>>

\* line 33: sf.read raises
SfReadFault ==
    /\ pc = "read"
    /\ calls' = Append(calls, Call("sf.read", <<sound_file>>, "raise", <<>>))
    /\ exc' = <<"Failed to read file">>
    /\ pc' = "except"
    /\ UNCHANGED <<inputs, event, sound_file, decoded, playResult, message, stderr,
                   exitStatus, uncaught>>

\* variant: playback at a fixed rate instead of the decoded one
SdPlayOkFixedRate ==
    /\ pc = "play"
    /\ calls' = Append(calls, Call("sd.play", <<decoded[1], 44100>>, "ok", <<>>))
    /\ pc' = "wait"
    /\ UNCHANGED <<inputs, event, playVars, message, stderr, exitStatus, uncaught>>

\* line 34: sd.play(data, samplerate) returns
SdPlayOk ==
    /\ pc = "play"
    /\ calls' = Append(calls, Call("sd.play", <<decoded[1], decoded[2]>>, "ok", <<>>))
    /\ pc' = "wait"
    /\ UNCHANGED <<inputs, event, playVars, message, stderr, exitStatus, uncaught>>

\* line 34: sd.play raises
SdPlayFault ==
    /\ pc = "play"
    /\ calls' = Append(calls, Call("sd.play", <<decoded[1], decoded[2]>>, "raise", <<>>))
    /\ exc' = <<"Audio device error">>
    /\ pc' = "except"
    /\ UNCHANGED <<inputs, event, sound_file, decoded, playResult, message, stderr,
                   exitStatus, uncaught>>

\* lines 35-36: sd.wait returns, play_sound_file returns True
SdWaitOk ==
    /\ pc = "wait"
    /\ calls' = Append(calls, Call("sd.wait", <<>>, "ok", <<>>))
    /\ playResult' = <<TRUE>>
    /\ pc' = "play_ret"
    /\ UNCHANGED <<inputs, event, sound_file, decoded, exc, message, stderr,
                   exitStatus, uncaught>>

\* line 35: sd.wait raises
SdWaitFault ==
    /\ pc = "wait"
    /\ calls' = Append(calls, Call("sd.wait", <<>>, "raise", <<>>))
    /\ exc' = <<"Stream aborted">>
    /\ pc' = "except"
    /\ UNCHANGED <<inputs, event, sound_file, decoded, playResult, message, stderr,
                   exitStatus, uncaught>>

\* variant: the handler reports success
PlayExceptReturnsTrue ==
    /\ pc = "except"
    /\ stderr' = Append(stderr, <<"Error playing sound", ": ">> \o exc)
    /\ playResult' = <<TRUE>>
    /\ pc' = "play_ret"
    /\ UNCHANGED <<inputs, event, sound_file, decoded, exc, message, calls,
                   exitStatus, uncaught>>

\* lines 37-39: the handler prints the exception and returns False
PlayExcept ==
    /\ pc = "except"
    /\ stderr' = Append(stderr, <<"Error playing sound", ": ">> \o exc)
    /\ playResult' = <<FALSE>>
    /\ pc' = "play_ret"
    /\ UNCHANGED <<inputs, event, sound_file, decoded, exc, message, calls,
                   exitStatus, uncaught>>

\* ----------------------------------------------------------- send_telegram
\* main, line 83: the value of play_sound_file is dropped, send_telegram called
MainCallSend ==
    /\ pc = "play_ret"
    /\ calls' = Append(calls, Call("send_telegram", <<event>>, "called", <<>>))
    /\ pc' = "tg_gate"
    /\ UNCHANGED <<inputs, event, playVars, message, stderr, exitStatus, uncaught>>

bot_token == Getenv(environ, "TELEGRAM_BOT_TOKEN")
chat_id == Getenv(environ, "TELEGRAM_CHAT_ID")

\* line 50: bot_token and chat_id
Configured == Truthy(bot_token) /\ Truthy(chat_id)

\* lines 44-45: not the complete event
SendSkipEvent ==
    /\ pc = "tg_gate"
    /\ event # "complete"
    /\ pc' = "main_ret"
    /\ UNCHANGED <<inputs, event, playVars, message, stderr, calls, exitStatus, uncaught>>

\* lines 47-51: not configured
SendSkipUnconfigured ==
    /\ pc = "tg_gate"
    /\ event = "complete"
    /\ ~Configured
    /\ pc' = "main_ret"
    /\ UNCHANGED <<inputs, event, playVars, message, stderr, calls, exitStatus, uncaught>>

MessageText(dir, now) ==
    <<"U+2713", " Claude Code done in '", Name(dir), "' at ">> \o FormatHMS(now)

\* line 53: the message is built from Path.cwd() and datetime.now()
SendBuildMessage ==
    /\ pc = "tg_gate"
    /\ event = "complete" /\ Configured
    /\ cwd.exists
    /\ \E now \in ClockValues : message' = MessageText(cwd.path, now)
    /\ pc' = "tg_post"
    /\ UNCHANGED <<inputs, event, playVars, stderr, calls, exitStatus, uncaught>>

\* line 53: Path.cwd() raises FileNotFoundError when the working directory
\* has been removed; the statement is outside the try block, so the
\* exception leaves send_telegram and main
SendBuildFault ==
    /\ pc = "tg_gate"
    /\ event = "complete" /\ Configured
    /\ ~cwd.exists
    /\ uncaught' = <<"FileNotFoundError">>
    /\ pc' = "crashed"
    /\ UNCHANGED <<inputs, event, playVars, message, stderr, calls, exitStatus>>

Timeout == 5

PostRequest ==
    [url |-> <<"https://api.telegram.org/bot", bot_token, "/sendMessage">>,
     json |-> [chat_id |-> chat_id, text |-> message],
     timeout |-> Timeout]

\* outcomes of requests.post: a response (success or not) is returned, a
\* connection error or a timeout is raised
PostOutcomes == {"ok", "non_success", "network_error", "timeout"}

\* variant: no handler around the request
RequestsPostUnguarded ==
    /\ pc = "tg_post"
    /\ \E o \in PostOutcomes :
          /\ calls' = Append(calls, Call("requests.post", <<PostRequest>>, o, <<>>))
          /\ IF o \in {"network_error", "timeout"}
             THEN pc' = "crashed" /\ uncaught' = <<o>>
             ELSE pc' = "main_ret" /\ uncaught' = uncaught
    /\ UNCHANGED <<inputs, event, playVars, message, stderr, exitStatus>>

\* lines 55-62: one POST; the response is dropped, an exception is passed over
RequestsPost ==
    /\ pc = "tg_post"
    /\ \E o \in PostOutcomes :
          calls' = Append(calls, Call("requests.post", <<PostRequest>>, o, <<>>))
    /\ pc' = "main_ret"
    /\ UNCHANGED <<inputs, event, playVars, message, stderr, exitStatus, uncaught>>

\* main, line 84
MainReturn ==
    /\ pc = "main_ret"
    /\ exitStatus' = <<0>>
    /\ pc' = "done"
    /\ UNCHANGED <<inputs, event, playVars, message, stderr, calls, uncaught>>

Next ==
    \/ MainUsage
    \/ MainDispatch
    \/ PlayMissing
    \/ PlayExists
    \/ SfReadOk
    \/ SfReadFault
    \/ SdPlayOk
    \/ SdPlayFault
    \/ SdWaitOk
    \/ SdWaitFault
    \/ PlayExcept
    \/ MainCallSend
    \/ SendSkipEvent
    \/ SendSkipUnconfigured
    \/ SendBuildMessage
    \/ SendBuildFault
    \/ RequestsPost
    \/ MainReturn

Spec == Init /\ [][Next]_vars

\* ------------------------------------------------------------- observations
CallIdx(fn) == {i \in 1..Len(calls) : calls[i].fn = fn}
Count(fn) == Cardinality(CallIdx(fn))

IsAudio(c) == c.fn \in {"sf.read", "sd.play", "sd.wait"}
AudioCalls == SelectSeq(calls, IsAudio)
AudioFaultAt(i) == AudioCalls[i].result = "raise"

HasToken(line, t) == \E i \in 1..Len(line) : line[i] = t
IsInfix(s, t) == \E k \in 0..(Len(t) - Len(s)) : SubSeq(t, k + 1, k + Len(s)) = s

OneValidArgument == Len(argv) = 2 /\ (argv[2] = "input" \/ argv[2] = "complete")
BothSet == environ["TELEGRAM_BOT_TOKEN"] = "set" /\ environ["TELEGRAM_CHAT_ID"] = "set"
Terminated == pc \in {"done", "crashed"}
PlayReturned == playResult # <<>>
PlayedPath == calls[1].args[1]
PostFailed(c) ==
    c.fn = "requests.post" /\ c.result \in {"network_error", "timeout", "non_success"}

\* ------------------------------------------------------------------- claims

\* C1: a well-formed invocation (one argument, 'input' or 'complete') always
\* ends with main returning 0: no exception escapes main, whatever the
\* outcome of playback and of building or sending the remote notification.
C1_WellFormedExitsZero ==
    OneValidArgument =>
        /\ pc # "crashed"
        /\ uncaught = <<>>
        /\ (pc = "done" => exitStatus = <<0>>)

\* C2: a malformed invocation (no argument, more than one, or an unknown
\* keyword) prints the usage text containing '{input|complete}' to the error
\* stream, returns 1, and invokes neither play_sound_file nor send_telegram
\* nor any decode, playback or request.
C2_MalformedUsage ==
    (~OneValidArgument /\ pc # "main") =>
        /\ pc = "done"
        /\ exitStatus = <<1>>
        /\ \E i \in 1..Len(stderr) :
              HasToken(stderr[i], "Usage: ") /\ HasToken(stderr[i], "{input|complete}")
        /\ calls = <<>>

C2_Witness ==
    /\ pc = "done"
    /\ Len(argv) = 3
    /\ argv[2] = "input"
    /\ exitStatus = <<1>>

\* C3: an invocation issues exactly one outbound request when the event is
\* 'complete' and both TELEGRAM_BOT_TOKEN and TELEGRAM_CHAT_ID are set and
\* non-empty, and none in every other case; never more than one.
C3_RequestCount ==
    /\ Count("requests.post") <= 1
    /\ Terminated =>
          Count("requests.post") =
              IF OneValidArgument /\ argv[2] = "complete" /\ BothSet THEN 1 ELSE 0

\* C4: a failed request (network error, timeout, non-success response) is
\* suppressed: send_telegram returns normally to main, nothing is written to
\* the error stream, the value play_sound_file returned is unchanged, and main
\* goes on to return 0.
C4_RequestFailureSuppressed ==
    /\ [][(Len(calls') = Len(calls) + 1 /\ PostFailed(calls'[Len(calls')])) =>
            /\ pc' = "main_ret"
            /\ stderr' = stderr
            /\ playResult' = playResult
            /\ uncaught' = <<>>]_vars
    /\ []((Terminated /\ \E i \in 1..Len(calls) : PostFailed(calls[i])) =>
            /\ pc = "done"
            /\ exitStatus = <<0>>
            /\ \A j \in 1..Len(stderr) : ~HasToken(stderr[j], "Usage: "))

C4_Witness ==
    /\ pc = "done"
    /\ \E i \in 1..Len(calls) : calls[i].fn = "requests.post" /\ calls[i].result = "timeout"
    /\ playResult = <<TRUE>>

\* C5: for a path that does not exist, play_sound_file returns False, writes
\* one warning containing the path string to the error stream, raises
\* nothing, and calls neither sf.read nor sd.play nor sd.wait.
C5_MissingFile ==
    (Count("play_sound_file") = 1 /\ pc # "exists" /\ PlayedPath \notin fs) =>
        /\ playResult = <<FALSE>>
        /\ exc = <<>>
        /\ Len(stderr) = 1
        /\ HasToken(stderr[1], "Warning: Sound file not found: ")
        /\ IsInfix(PathStr(PlayedPath), stderr[1])
        /\ Len(AudioCalls) = 0

C5_Witness ==
    /\ Count("play_sound_file") = 1
    /\ PlayedPath \notin fs
    /\ Len(PlayedPath) > 2
    /\ playResult = <<FALSE>>
    /\ pc = "done"

\* C6: when the file exists and no step faults, play_sound_file decodes that
\* file, starts playback with exactly the decoded buffer and sample rate,
\* waits, each once and in this order, returns True only after the wait has
\* returned, and writes no diagnostic.
C6_PlaybackSequence ==
    /\ (PlayReturned /\ PlayedPath \in fs /\ \A i \in 1..Len(AudioCalls) : ~AudioFaultAt(i)) =>
          /\ Len(AudioCalls) = 3
          /\ AudioCalls[1].fn = "sf.read" /\ AudioCalls[1].args = <<PlayedPath>>
          /\ AudioCalls[2].fn = "sd.play" /\ AudioCalls[2].args = AudioCalls[1].value
          /\ AudioCalls[3].fn = "sd.wait"
          /\ playResult = <<TRUE>>
          /\ stderr = <<>>
    /\ playResult = <<TRUE>> =>
          /\ Len(AudioCalls) = 3
          /\ AudioCalls[3].fn = "sd.wait" /\ AudioCalls[3].result = "ok"

C6_Witness ==
    /\ playResult = <<TRUE>>
    /\ Len(AudioCalls) = 3
    /\ AudioCalls[2].args[2] = 48000
    /\ pc = "done"

\* C7: when the file exists and decode, playback start or wait faults,
\* play_sound_file runs no later step, writes a diagnostic containing
\* 'Error playing sound', returns False, and the exception does not reach
\* the caller.
C7_PlaybackFault ==
    \A i \in 1..Len(AudioCalls) :
        AudioFaultAt(i) =>
            /\ i = Len(AudioCalls)
            /\ exc # <<>>
            /\ pc = "except" \/ PlayReturned
            /\ PlayReturned =>
                  /\ playResult = <<FALSE>>
                  /\ Len(stderr) = 1
                  /\ HasToken(stderr[1], "Error playing sound")
                  /\ IsInfix(exc, stderr[1])

C7_Witness ==
    /\ Len(AudioCalls) = 1
    /\ AudioFaultAt(1)
    /\ playResult = <<FALSE>>
    /\ pc = "done"

C9_InputSoundName ==
    (OneValidArgument /\ argv[2] = "input" /\ pc # "main") =>
        /\ Count("play_sound_file") = 1
        /\ Name(calls[1].args[1]) = "input-needed.wav"

\* C10: send_telegram starts only after play_sound_file has returned, and
\* whatever it returned: with 'complete' and both variables set the one
\* request is issued also when the file is missing or playback faulted.
C10_NotifyAfterPlayback ==
    /\ \A i \in CallIdx("send_telegram") :
          /\ PlayReturned
          /\ \A j \in 1..Len(calls) : (IsAudio(calls[j]) \/ calls[j].fn = "play_sound_file") => j < i
    /\ \A i \in CallIdx("requests.post") : \E j \in CallIdx("send_telegram") : j < i
    /\ (Terminated /\ OneValidArgument /\ argv[2] = "complete" /\ BothSet) =>
          Count("requests.post") = 1
====
